---- MODULE Spec2Model ----
(***************************************************************************)
(* State-machine model of plugins/linux-jack/jack-input.c: the JACK input  *)
(* source of obs-studio.  One UI thread runs the lifecycle hooks           *)
(* (create, update, destroy, get_properties) and the modified callback of  *)
(* the "channels" property, one source line (or one short block) per step. *)
(* The wrapper functions jack_init and deactivate_jack live in             *)
(* jack-wrapper.c and are modelled from their documented contract.         *)
(***************************************************************************)
EXTENDS Integers, Sequences, FiniteSets, TLC

(* ------------------------------------------------------------------ *)
(* Bounds of the model                                                 *)
(* ------------------------------------------------------------------ *)

\* the "channels" setting ranges over -1 .. MaxChanSetting
MaxChanSetting == 9

\* the source can carry one of NumNames names
NumNames == 2

(* ------------------------------------------------------------------ *)
(* Program constants                                                   *)
(* ------------------------------------------------------------------ *)

JACK_INPUT_MAX_PORTS == 8

\* indices of channel_ports_property_names[]
channel_ports_property_names == 0 .. (JACK_INPUT_MAX_PORTS - 1)

\* the value data->channels gets in jack_create before the first update
InitialChannels == -1

ChanSettings == {InitialChannels} \cup (0 .. MaxChanSetting)

Names == 1 .. NumNames

\* a NULL char pointer
NoDevice == 0

VARIABLES
    pc,         \* position of the UI thread
    hook,       \* the hook the host is running ("none" between hooks)
    caller,     \* who called jack_update / jack_destroy: "host" or "create"
    vptr,       \* the pointer argument of the running update / destroy
    data,       \* struct jack_data: the capture session
    settings,   \* the source's obs_data settings
    srcname,    \* what obs_source_get_name(source) returns
    loc,        \* locals of jack_update
    ret,        \* what the last jack_create returned
    conn,       \* the last wrapper call that ran on the session
    pre,        \* the session as it was when the running hook (or the
                \* jack_update that jack_create calls) was entered
    ev,         \* the calls and stores of the running hook, in order
    acc,        \* accesses to data->channels made by the running hook
    props,      \* the property descriptor the host holds
    cb,         \* what the last run of the modified callback did
    hist        \* the latest callback counts, as far as they start Pattern

vars == <<pc, hook, caller, vptr, data, settings, srcname, loc, ret, conn,
          pre, ev, acc, props, cb, hist>>

(* ------------------------------------------------------------------ *)
(* The session                                                         *)
(* ------------------------------------------------------------------ *)

\* no session: before the first create, and the canonical freed block
NoData(a) ==
    [alloc |-> a, jack_mutex |-> "none", source |-> FALSE,
     device |-> NoDevice, channels |-> 0, start_jack_server |-> FALSE,
     jack_client |-> "NULL", activated |-> FALSE]

\* bzalloc(sizeof(struct jack_data)): a zeroed block
bzalloc ==
    [alloc |-> "live", jack_mutex |-> "uninit", source |-> FALSE,
     device |-> NoDevice, channels |-> 0, start_jack_server |-> FALSE,
     jack_client |-> "NULL", activated |-> FALSE]

NoLoc ==
    [new_jack_start_server |-> FALSE, new_channel_count |-> 0,
     settings_changed |-> FALSE, status |-> 0]

\* deactivate_jack(data): closes the client and its port connections
deactivate_jack(d) ==
    [d EXCEPT !.jack_client = "NULL", !.activated = FALSE]

\* jack_init(data): every outcome of opening a client for the session.
\* Success leaves an activated client; a failure leaves either no client
\* (server unreachable) or an opened but not activated one (a later step
\* of the connection failed).
jack_init(d) ==
    { [data |-> [d EXCEPT !.jack_client = "open", !.activated = TRUE],
       status |-> 0],
      [data |-> [d EXCEPT !.jack_client = "NULL", !.activated = FALSE],
       status |-> 1],
      [data |-> [d EXCEPT !.jack_client = "open", !.activated = FALSE],
       status |-> 1] }

\* the handle the host passes for its source
HostHandle == IF data.alloc = "live" THEN "data" ELSE "NULL"

Access(kind, line) ==
    [kind |-> kind, line |-> line, held |-> data.jack_mutex = "locked"]

(* ------------------------------------------------------------------ *)
(* Initial state                                                       *)
(* ------------------------------------------------------------------ *)

NoProps ==
    [exists |-> FALSE, channels_props |-> 0, modified_callback |-> {},
     startjack_prop |-> FALSE, lists |-> 0, applied |-> FALSE,
     visible |-> [i \in channel_ports_property_names |-> FALSE]]

\* obs_properties_create(): an empty descriptor
obs_properties_create == [NoProps EXCEPT !.exists = TRUE]

\* obs_properties_add_int(props, "channels", ...): one more property of
\* that name; the handle returned is the number of the property added
obs_properties_add_int(p) ==
    [props |-> [p EXCEPT !.channels_props = @ + 1],
     handle |-> p.channels_props + 1]

\* obs_property_set_modified_callback(handle, callback)
obs_property_set_modified_callback(p, handle) ==
    [p EXCEPT !.modified_callback = @ \cup {handle}]

\* obs_properties_add_bool(props, "startjack", ...)
obs_properties_add_bool(p) == [p EXCEPT !.startjack_prop = TRUE]

\* a modified callback is attached to a "channels" property of the
\* descriptor the host holds
CallbackAttached == props.modified_callback # {}

NoCb == [ran |-> FALSE, channels |-> 0, log |-> <<>>, before |-> NoProps.visible]

\* jack_input_defaults: channels 2, startjack false
jack_input_defaults == [channels |-> 2, startjack |-> FALSE]

Init ==
    /\ pc = "idle"
    /\ hook = "none"
    /\ caller = "host"
    /\ vptr = "NULL"
    /\ data = NoData("none")
    /\ settings = jack_input_defaults
    /\ srcname \in Names
    /\ loc = NoLoc
    /\ ret = "none"
    /\ conn = "never"
    /\ pre = NoData("none")
    /\ ev = <<>>
    /\ acc = {}
    /\ props = NoProps
    /\ cb = NoCb
    /\ hist = <<>>

(* ------------------------------------------------------------------ *)
(* Returning to the host                                               *)
(* ------------------------------------------------------------------ *)

\* the hook has returned; the host goes on and the per-hook records end
host_return ==
    /\ pc = "returned"
    /\ pc' = "idle"
    /\ hook' = "none"
    /\ caller' = "host"
    /\ vptr' = "NULL"
    /\ loc' = NoLoc
    /\ pre' = NoData("none")
    /\ ev' = <<>>
    /\ acc' = {}
    /\ cb' = NoCb
    /\ UNCHANGED <<data, settings, srcname, ret, conn, props, hist>>

\* the host enters a hook
Enter(h, first) ==
    /\ pc = "idle"
    /\ pc' = first
    /\ hook' = h
    /\ caller' = "host"
    /\ pre' = data
    /\ ev' = <<>>
    /\ acc' = {}

(* ------------------------------------------------------------------ *)
(* The host's side: settings and the source's name                     *)
(* ------------------------------------------------------------------ *)

\* the user renames the source
host_rename ==
    /\ pc = "idle"
    /\ \E n \in Names \ {srcname} : srcname' = n
    /\ UNCHANGED <<pc, hook, caller, vptr, data, settings, loc, ret, conn,
                   pre, ev, acc, props, cb, hist>>

\* the "startjack" setting is changed
host_set_startjack ==
    /\ pc = "idle"
    /\ settings' = [settings EXCEPT !.startjack = ~settings.startjack]
    /\ UNCHANGED <<pc, hook, caller, vptr, data, srcname, loc, ret, conn,
                   pre, ev, acc, props, cb, hist>>

\* the "channels" setting is changed while no modified callback is
\* attached to a "channels" property (no property view is open)
host_set_channels ==
    /\ pc = "idle"
    /\ ~CallbackAttached
    /\ \E c \in ChanSettings \ {settings.channels} :
           settings' = [settings EXCEPT !.channels = c]
    /\ UNCHANGED <<pc, hook, caller, vptr, data, srcname, loc, ret, conn,
                   pre, ev, acc, props, cb, hist>>

(* ------------------------------------------------------------------ *)
(* jack_update                                                         *)
(* ------------------------------------------------------------------ *)

\* the host calls update(handle, settings)
jack_update_enter ==
    /\ Enter("update", "update_68")
    /\ vptr' = HostHandle
    /\ UNCHANGED <<data, settings, srcname, loc, ret, conn, props, cb, hist>>

\* lines 67-74: the null check, then the two settings are read
jack_update_68 ==
    /\ pc = "update_68"
    /\ IF vptr = "NULL"
       THEN /\ pc' = "update_ret"
            /\ loc' = loc
       ELSE /\ pc' = "update_76"
            /\ loc' = [NoLoc EXCEPT
                         !.new_jack_start_server = settings.startjack,
                         !.new_channel_count = settings.channels]
    /\ UNCHANGED <<hook, caller, vptr, data, settings, srcname, ret, conn,
                   pre, ev, acc, props, cb, hist>>

\* jack_update_76 without line 78: the flag is stored, no change is noted
jack_update_76_not_noted ==
    /\ pc = "update_76"
    /\ pc' = "update_81"
    /\ data' = [data EXCEPT !.start_jack_server = loc.new_jack_start_server]
    /\ UNCHANGED <<hook, caller, vptr, settings, srcname, loc, ret, conn,
                   pre, ev, acc, props, cb, hist>>

\* lines 76-79
jack_update_76 ==
    /\ pc = "update_76"
    /\ pc' = "update_81"
    /\ IF loc.new_jack_start_server # data.start_jack_server
       THEN /\ data' = [data EXCEPT
                          !.start_jack_server = loc.new_jack_start_server]
            /\ loc' = [loc EXCEPT !.settings_changed = TRUE]
       ELSE UNCHANGED <<data, loc, hist>>
    /\ UNCHANGED <<hook, caller, vptr, settings, srcname, ret, conn, pre,
                   ev, acc, props, cb, hist>>

\* lines 81-86: the old channel count is kept for now
jack_update_81 ==
    /\ pc = "update_81"
    /\ pc' = "update_88"
    /\ acc' = acc \cup {Access("read", 81)}
    /\ loc' = IF loc.new_channel_count # data.channels
              THEN [loc EXCEPT !.settings_changed = TRUE]
              ELSE loc
    /\ UNCHANGED <<hook, caller, vptr, data, settings, srcname, ret, conn,
                   pre, ev, props, cb, hist>>

\* jack_update_88 without line 93: the name is copied, no change is noted
jack_update_88_not_noted ==
    /\ pc = "update_88"
    /\ pc' = "update_96"
    /\ IF data.device = NoDevice \/ data.device # srcname
       THEN /\ data' = [data EXCEPT !.device = srcname]
            /\ ev' = IF data.device # NoDevice
                     THEN Append(Append(ev, <<"bfree_device", data.device>>),
                                 <<"bstrdup", srcname>>)
                     ELSE Append(ev, <<"bstrdup", srcname>>)
       ELSE UNCHANGED <<data, ev>>
    /\ UNCHANGED <<hook, caller, vptr, settings, srcname, loc, ret, conn,
                   pre, acc, props, cb, hist>>

\* lines 88-94: new_device is the source's name
jack_update_88 ==
    /\ pc = "update_88"
    /\ pc' = "update_96"
    /\ IF data.device = NoDevice \/ data.device # srcname
       THEN /\ data' = [data EXCEPT !.device = srcname]
            /\ ev' = IF data.device # NoDevice
                     THEN Append(Append(ev, <<"bfree_device", data.device>>),
                                 <<"bstrdup", srcname>>)
                     ELSE Append(ev, <<"bstrdup", srcname>>)
            /\ loc' = [loc EXCEPT !.settings_changed = TRUE]
       ELSE UNCHANGED <<data, ev, loc, hist>>
    /\ UNCHANGED <<hook, caller, vptr, settings, srcname, ret, conn, pre,
                   acc, props, cb, hist>>

\* jack_update_96 that also reinitializes whenever the session has no client
jack_update_96_retry ==
    /\ pc = "update_96"
    /\ pc' = IF loc.settings_changed \/ data.jack_client = "NULL"
             THEN "update_97" ELSE "update_ret"
    /\ UNCHANGED <<hook, caller, vptr, data, settings, srcname, loc, ret,
                   conn, pre, ev, acc, props, cb, hist>>

\* line 96
jack_update_96 ==
    /\ pc = "update_96"
    /\ pc' = IF loc.settings_changed THEN "update_97" ELSE "update_ret"
    /\ UNCHANGED <<hook, caller, vptr, data, settings, srcname, loc, ret,
                   conn, pre, ev, acc, props, cb, hist>>

\* jack_update_97 left out: the connection is not deactivated first
jack_update_97_skipped ==
    /\ pc = "update_97"
    /\ pc' = "update_99"
    /\ UNCHANGED <<hook, caller, vptr, data, settings, srcname, loc, ret,
                   conn, pre, ev, acc, props, cb, hist>>

\* jack_update_97 after the store of line 99: the new channel count is
\* already in place when the connection is deactivated
jack_update_97_after_store ==
    /\ pc = "update_97"
    /\ pc' = "update_101"
    /\ data' = deactivate_jack(
                   [data EXCEPT !.channels = loc.new_channel_count])
    /\ conn' = "deactivate_jack"
    /\ acc' = acc \cup {Access("write", 99)}
    /\ ev' = ev \o << <<"channels", loc.new_channel_count>>,
                      <<"deactivate_jack", loc.new_channel_count>> >>
    /\ UNCHANGED <<hook, caller, vptr, settings, srcname, loc, ret, pre,
                   props, cb, hist>>

\* line 97
jack_update_97 ==
    /\ pc = "update_97"
    /\ pc' = "update_99"
    /\ data' = deactivate_jack(data)
    /\ conn' = "deactivate_jack"
    /\ ev' = Append(ev, <<"deactivate_jack", data.channels>>)
    /\ UNCHANGED <<hook, caller, vptr, settings, srcname, loc, ret, pre,
                   acc, props, cb, hist>>

\* line 99
jack_update_99 ==
    /\ pc = "update_99"
    /\ pc' = "update_101"
    /\ data' = [data EXCEPT !.channels = loc.new_channel_count]
    /\ acc' = acc \cup {Access("write", 99)}
    /\ ev' = Append(ev, <<"channels", loc.new_channel_count>>)
    /\ UNCHANGED <<hook, caller, vptr, settings, srcname, loc, ret, conn,
                   pre, props, cb, hist>>

\* jack_update_101 with the status of jack_init ignored: line 102 never runs
jack_update_101_status_ignored ==
    /\ pc = "update_101"
    /\ \E r \in jack_init(data) :
          /\ data' = r.data
          /\ loc' = [loc EXCEPT !.status = r.status]
          /\ conn' = IF r.status = 0 THEN "jack_init_ok" ELSE "jack_init_failed"
          /\ ev' = Append(ev, <<"jack_init", data.channels, r.status,
                                r.data.jack_client>>)
          /\ pc' = "update_ret"
    /\ UNCHANGED <<hook, caller, vptr, settings, srcname, ret, pre, acc,
                   props, cb, hist>>

\* line 101: jack_init(data) and the test of its status
jack_update_101 ==
    /\ pc = "update_101"
    /\ \E r \in jack_init(data) :
          /\ data' = r.data
          /\ loc' = [loc EXCEPT !.status = r.status]
          /\ conn' = IF r.status = 0 THEN "jack_init_ok" ELSE "jack_init_failed"
          /\ ev' = Append(ev, <<"jack_init", data.channels, r.status,
                                r.data.jack_client>>)
          /\ pc' = IF r.status # 0 THEN "update_102" ELSE "update_ret"
    /\ UNCHANGED <<hook, caller, vptr, settings, srcname, ret, pre, acc,
                   props, cb, hist>>

\* line 102
jack_update_102 ==
    /\ pc = "update_102"
    /\ pc' = "update_ret"
    /\ data' = deactivate_jack(data)
    /\ conn' = "deactivate_jack"
    /\ ev' = Append(ev, <<"deactivate_jack", data.channels>>)
    /\ UNCHANGED <<hook, caller, vptr, settings, srcname, loc, ret, pre,
                   acc, props, cb, hist>>

\* line 105 (and the return of line 69): back to jack_create or the host
jack_update_ret ==
    /\ pc = "update_ret"
    /\ pc' = IF caller = "create" THEN "create_120" ELSE "returned"
    /\ UNCHANGED <<hook, caller, vptr, data, settings, srcname, loc, ret,
                   conn, pre, ev, acc, props, cb, hist>>

(* ------------------------------------------------------------------ *)
(* jack_destroy                                                        *)
(* ------------------------------------------------------------------ *)

\* the host calls destroy(handle)
jack_destroy_enter ==
    /\ Enter("destroy", "destroy_51")
    /\ vptr' = HostHandle
    /\ UNCHANGED <<data, settings, srcname, loc, ret, conn, props, cb, hist>>

\* jack_destroy_51 without the null check of lines 51-52
jack_destroy_51_unguarded ==
    /\ pc = "destroy_51"
    /\ pc' = "destroy_54"
    /\ UNCHANGED <<hook, caller, vptr, data, settings, srcname, loc, ret,
                   conn, pre, ev, acc, props, cb, hist>>

\* lines 49-52
jack_destroy_51 ==
    /\ pc = "destroy_51"
    /\ pc' = IF vptr = "NULL" THEN "destroy_ret" ELSE "destroy_54"
    /\ UNCHANGED <<hook, caller, vptr, data, settings, srcname, loc, ret,
                   conn, pre, ev, acc, props, cb, hist>>

\* jack_destroy_54 left out: the session is freed with its client open
jack_destroy_54_skipped ==
    /\ pc = "destroy_54"
    /\ pc' = "destroy_56"
    /\ UNCHANGED <<hook, caller, vptr, data, settings, srcname, loc, ret,
                   conn, pre, ev, acc, props, cb, hist>>

\* line 54
jack_destroy_54 ==
    /\ pc = "destroy_54"
    /\ pc' = "destroy_56"
    /\ data' = deactivate_jack(data)
    /\ conn' = "deactivate_jack"
    /\ ev' = Append(ev, <<"deactivate_jack", data.channels>>)
    /\ UNCHANGED <<hook, caller, vptr, settings, srcname, loc, ret, pre,
                   acc, props, cb, hist>>

\* jack_destroy_56 left out: the device string is never released
jack_destroy_56_leak ==
    /\ pc = "destroy_56"
    /\ pc' = "destroy_58"
    /\ UNCHANGED <<hook, caller, vptr, data, settings, srcname, loc, ret,
                   conn, pre, ev, acc, props, cb, hist>>

\* lines 56-57
jack_destroy_56 ==
    /\ pc = "destroy_56"
    /\ pc' = "destroy_58"
    /\ IF data.device # NoDevice
       THEN /\ data' = [data EXCEPT !.device = NoDevice]
            /\ ev' = Append(ev, <<"bfree_device", data.device>>)
       ELSE UNCHANGED <<data, ev, hist>>
    /\ UNCHANGED <<hook, caller, vptr, settings, srcname, loc, ret, conn,
                   pre, acc, props, cb, hist>>

\* line 58
jack_destroy_58 ==
    /\ pc = "destroy_58"
    /\ pc' = "destroy_59"
    /\ data' = [data EXCEPT !.jack_mutex = "destroyed"]
    /\ ev' = Append(ev, <<"pthread_mutex_destroy">>)
    /\ UNCHANGED <<hook, caller, vptr, settings, srcname, loc, ret, conn,
                   pre, acc, props, cb, hist>>

\* line 59
jack_destroy_59 ==
    /\ pc = "destroy_59"
    /\ pc' = "destroy_ret"
    /\ data' = NoData("freed")
    /\ ev' = Append(ev, <<"bfree_data">>)
    /\ UNCHANGED <<hook, caller, vptr, settings, srcname, loc, ret, conn,
                   pre, acc, props, cb, hist>>

\* line 60 (and the return of line 52): back to jack_create or the host
jack_destroy_ret ==
    /\ pc = "destroy_ret"
    /\ pc' = IF caller = "create" THEN "create_122" ELSE "returned"
    /\ UNCHANGED <<hook, caller, vptr, data, settings, srcname, loc, ret,
                   conn, pre, ev, acc, props, cb, hist>>

(* ------------------------------------------------------------------ *)
(* jack_create                                                         *)
(* ------------------------------------------------------------------ *)

\* the host calls create(settings, source); line 112
jack_create_112 ==
    /\ Enter("create", "create_114")
    /\ data.alloc # "live"
    /\ data' = bzalloc
    /\ vptr' = "NULL"
    /\ ret' = "none"
    /\ conn' = "never"
    /\ UNCHANGED <<settings, srcname, loc, props, cb, hist>>

\* line 114
jack_create_114 ==
    /\ pc = "create_114"
    /\ pc' = "create_115"
    /\ data' = [data EXCEPT !.jack_mutex = "unlocked"]
    /\ ev' = Append(ev, <<"pthread_mutex_init">>)
    /\ UNCHANGED <<hook, caller, vptr, settings, srcname, loc, ret, conn,
                   pre, acc, props, cb, hist>>

\* lines 115-116
jack_create_115 ==
    /\ pc = "create_115"
    /\ pc' = "create_118"
    /\ data' = [data EXCEPT !.source = TRUE, !.channels = InitialChannels]
    /\ acc' = acc \cup {Access("write", 116)}
    /\ UNCHANGED <<hook, caller, vptr, settings, srcname, loc, ret, conn,
                   pre, ev, props, cb, hist>>

\* line 118: jack_update(data, settings)
jack_create_118 ==
    /\ pc = "create_118"
    /\ pc' = "update_68"
    /\ caller' = "create"
    /\ vptr' = "data"
    /\ pre' = data
    /\ UNCHANGED <<hook, data, settings, srcname, loc, ret, conn, ev,
                   acc, props, cb, hist>>

\* jack_create_120 without the test of line 120: the session is returned
\* whatever its client handle is
jack_create_120_unchecked ==
    /\ pc = "create_120"
    /\ data.alloc = "live"
    /\ pc' = "returned"
    /\ ret' = "data"
    /\ UNCHANGED <<hook, caller, vptr, data, settings, srcname, loc, conn,
                   pre, ev, acc, props, cb, hist>>

\* lines 120-121 and 124
jack_create_120 ==
    /\ pc = "create_120"
    /\ data.alloc = "live"
    /\ IF data.jack_client = "NULL"
       THEN /\ pc' = "destroy_51"
            /\ vptr' = "data"
            /\ ret' = ret
       ELSE /\ pc' = "returned"
            /\ vptr' = vptr
            /\ ret' = "data"
    /\ UNCHANGED <<hook, caller, data, settings, srcname, loc, conn, pre,
                   ev, acc, props, cb, hist>>

\* line 122
jack_create_122 ==
    /\ pc = "create_122"
    /\ pc' = "returned"
    /\ ret' = "NULL"
    /\ UNCHANGED <<hook, caller, vptr, data, settings, srcname, loc, conn,
                   pre, ev, acc, props, cb, hist>>

(* ------------------------------------------------------------------ *)
(* jack_create when the allocation fails                               *)
(* ------------------------------------------------------------------ *)

\* line 112 when bzalloc has no memory to give: data is NULL.  Nothing
\* tests it: the lines that follow use the null pointer, which is
\* undefined; each such use either kills the process or goes by.
jack_create_112_null ==
    /\ pc = "idle"
    /\ data.alloc # "live"
    /\ pc' = "create_114_null"
    /\ hook' = "create"
    /\ caller' = "host"
    /\ pre' = data
    /\ acc' = {}
    /\ vptr' = "NULL"
    /\ ret' = "none"
    /\ conn' = "never"
    /\ ev' = <<<<"bzalloc_failed">>>>
    /\ UNCHANGED <<data, settings, srcname, loc, props, cb, hist>>

\* line 114 with data NULL: pthread_mutex_init(&data->jack_mutex, NULL)
jack_create_114_null ==
    /\ pc = "create_114_null"
    /\ pc' \in {"create_115_null", "crashed"}
    /\ ev' = Append(ev, <<"pthread_mutex_init", "NULL">>)
    /\ UNCHANGED <<hook, caller, vptr, data, settings, srcname, loc, ret,
                   conn, pre, acc, props, cb, hist>>

\* lines 115-116 with data NULL: two stores through the null pointer
jack_create_115_null ==
    /\ pc = "create_115_null"
    /\ pc' \in {"create_118_null", "crashed"}
    /\ ev' = Append(ev, <<"store", "NULL">>)
    /\ UNCHANGED <<hook, caller, vptr, data, settings, srcname, loc, ret,
                   conn, pre, acc, props, cb, hist>>

\* line 118 with data NULL: jack_update(NULL, settings)
jack_create_118_null ==
    /\ pc = "create_118_null"
    /\ pc' = "update_68"
    /\ caller' = "create"
    /\ vptr' = "NULL"
    /\ ev' = Append(ev, <<"jack_update", "NULL">>)
    /\ UNCHANGED <<hook, data, settings, srcname, loc, ret, conn, pre,
                   acc, props, cb, hist>>

\* lines 120-124 with data NULL: data->jack_client is read through the
\* null pointer; whatever the read gives, jack_destroy(NULL) or the
\* return of data hands NULL back
jack_create_120_null ==
    /\ pc = "create_120"
    /\ data.alloc # "live"
    /\ \/ /\ pc' = "destroy_51"
          /\ ret' = ret
       \/ /\ pc' = "returned"
          /\ ret' = "NULL"
       \/ /\ pc' = "crashed"
          /\ ret' = ret
    /\ UNCHANGED <<hook, caller, vptr, data, settings, srcname, loc, conn,
                   pre, ev, acc, props, cb, hist>>

(* ------------------------------------------------------------------ *)
(* jack_input_properties                                               *)
(* ------------------------------------------------------------------ *)

\* the host calls get_properties(handle) for its live source
jack_input_properties_enter ==
    /\ Enter("get_properties", "props_169")
    /\ data.alloc = "live"
    /\ vptr' = "data"
    /\ UNCHANGED <<data, settings, srcname, loc, ret, conn, props, cb, hist>>

\* lines 169-180: the descriptor, "channels" added twice, the modified
\* callback set on the second handle, and "startjack"
jack_input_properties_169 ==
    /\ pc = "props_169"
    /\ pc' = "props_182"
    /\ LET first == obs_properties_add_int(obs_properties_create)
           channels == obs_properties_add_int(first.props)
       IN  props' = obs_properties_add_bool(
                        obs_property_set_modified_callback(
                            channels.props, channels.handle))
    /\ hist' = <<>>
    /\ UNCHANGED <<hook, caller, vptr, data, settings, srcname, loc, ret,
                   conn, pre, ev, acc, cb>>

\* line 182
jack_input_properties_182 ==
    /\ pc = "props_182"
    /\ data.jack_mutex = "unlocked"
    /\ pc' = "props_187"
    /\ data' = [data EXCEPT !.jack_mutex = "locked"]
    /\ ev' = Append(ev, <<"pthread_mutex_lock">>)
    /\ UNCHANGED <<hook, caller, vptr, settings, srcname, loc, ret, conn,
                   pre, acc, props, cb, hist>>

\* lines 187-190: one editable list per name of the table; a new property
\* has the host library's default visibility, whichever that is
jack_input_properties_187 ==
    /\ pc = "props_187"
    /\ pc' = "props_192"
    /\ \E default_visible \in BOOLEAN :
          props' = [props EXCEPT
                      !.lists = JACK_INPUT_MAX_PORTS,
                      !.visible = [i \in channel_ports_property_names |->
                                      default_visible]]
    /\ UNCHANGED <<hook, caller, vptr, data, settings, srcname, loc, ret,
                   conn, pre, ev, acc, cb, hist>>

\* jack_input_properties_192 left out: the descriptor is returned with the
\* mutex still locked
jack_input_properties_192_no_unlock ==
    /\ pc = "props_192"
    /\ pc' = "props_194"
    /\ UNCHANGED <<hook, caller, vptr, data, settings, srcname, loc, ret,
                   conn, pre, ev, acc, props, cb, hist>>

\* line 192
jack_input_properties_192 ==
    /\ pc = "props_192"
    /\ pc' = "props_194"
    /\ data' = [data EXCEPT !.jack_mutex = "unlocked"]
    /\ ev' = Append(ev, <<"pthread_mutex_unlock">>)
    /\ UNCHANGED <<hook, caller, vptr, settings, srcname, loc, ret, conn,
                   pre, acc, props, cb, hist>>

\* line 194
jack_input_properties_194 ==
    /\ pc = "props_194"
    /\ pc' = "returned"
    /\ UNCHANGED <<hook, caller, vptr, data, settings, srcname, loc, ret,
                   conn, pre, ev, acc, props, cb, hist>>

\* the host closes the property view and destroys the descriptor
host_close_properties ==
    /\ pc = "idle"
    /\ props.exists
    /\ props' = NoProps
    /\ hist' = <<>>
    /\ UNCHANGED <<pc, hook, caller, vptr, data, settings, srcname, loc,
                   ret, conn, pre, ev, acc, cb>>

(* ------------------------------------------------------------------ *)
(* jack_input_channel_count_changed                                    *)
(* ------------------------------------------------------------------ *)

\* lines 147-149 and 154-156: the property named by entry i of the table
\* is looked up, set visible or hidden, and refreshed.  An index outside
\* the table reads past the array: the step is recorded, no entry changes.
Toggle(st, i, v) ==
    [visible |-> IF i \in channel_ports_property_names
                 THEN [st.visible EXCEPT ![i] = v]
                 ELSE st.visible,
     log |-> st.log \o << <<"set_visible", i, v>>, <<"modified", i>> >>]

RECURSIVE ShowLoop(_, _, _)
\* lines 146-150: for (int i = 0; i < channels; ++i)
ShowLoop(i, channels, st) ==
    IF i < channels
    THEN ShowLoop(i + 1, channels, Toggle(st, i, TRUE))
    ELSE st

RECURSIVE HideAfter(_, _)
HideAfter(i, st) ==
    IF i < JACK_INPUT_MAX_PORTS
    THEN HideAfter(i + 1, Toggle(st, i, FALSE))
    ELSE st

\* HideLoop starting one entry late: for (int i = channels + 1; ...)
HideLoop_starts_late(i, st) == HideAfter(i + 1, st)

RECURSIVE HideLoop(_, _)
\* lines 153-157: for (int i = channels; i < JACK_INPUT_MAX_PORTS; ++i)
HideLoop(i, st) ==
    IF i < JACK_INPUT_MAX_PORTS
    THEN HideLoop(i + 1, Toggle(st, i, FALSE))
    ELSE st

\* channel_count_changed without its second loop
channel_count_changed_show_only(visible, channels) ==
    ShowLoop(0, channels, [visible |-> visible, log |-> <<>>])

\* the body of the callback: what it makes of the entries' visibility
channel_count_changed(visible, channels) ==
    HideLoop(channels,
             ShowLoop(0, channels, [visible |-> visible, log |-> <<>>]))

\* the indices a run of the callback used that are not in the table
OutOfTable(log) ==
    {log[k][2] : k \in DOMAIN log} \ channel_ports_property_names

\* the sequence of channel counts of section 8 of the specification
Pattern == <<2, 5, 2>>

\* the longest run of the latest callback counts that starts Pattern
Track(h, c) ==
    LET all == Append(h, c)
        n == Len(all)
        fits(k) == /\ k <= Len(Pattern)
                   /\ \A j \in 1 .. k : all[n - k + j] = Pattern[j]
        ks == {k \in 0 .. n : fits(k)}
        best == CHOOSE k \in ks : \A m \in ks : m <= k
    IN  SubSeq(all, n - best + 1, n)

\* the "channels" setting is changed in the property view: the host
\* stores the value and runs the modified callback of the property.
\* Reading past the table is undefined: the run either goes on or the
\* process dies.
jack_input_channel_count_changed ==
    /\ pc = "idle"
    /\ CallbackAttached
    /\ \E c \in ChanSettings \ {settings.channels} :
          LET r == channel_count_changed(props.visible, c) IN
          /\ settings' = [settings EXCEPT !.channels = c]
          /\ props' = [props EXCEPT !.visible = r.visible,
                                    !.applied = TRUE]
          /\ cb' = [ran |-> TRUE, channels |-> c, log |-> r.log,
                    before |-> props.visible]
          /\ hist' = Track(hist, c)
          /\ \/ pc' = "returned"
             \/ /\ OutOfTable(r.log) # {}
                /\ pc' = "crashed"
    /\ hook' = "modified"
    /\ UNCHANGED <<caller, vptr, data, srcname, loc, ret, conn, pre, ev, acc>>

SessionNext ==
    \/ host_return
    \/ host_rename
    \/ host_set_startjack
    \/ host_set_channels
    \/ jack_update_enter
    \/ jack_update_68
    \/ jack_update_76
    \/ jack_update_81
    \/ jack_update_88
    \/ jack_update_96
    \/ jack_update_97
    \/ jack_update_99
    \/ jack_update_101
    \/ jack_update_102
    \/ jack_update_ret
    \/ jack_destroy_enter
    \/ jack_destroy_51
    \/ jack_destroy_54
    \/ jack_destroy_56
    \/ jack_destroy_58
    \/ jack_destroy_59
    \/ jack_destroy_ret
    \/ jack_create_112
    \/ jack_create_114
    \/ jack_create_115
    \/ jack_create_118
    \/ jack_create_120
    \/ jack_create_122
    \/ jack_create_112_null
    \/ jack_create_114_null
    \/ jack_create_115_null
    \/ jack_create_118_null
    \/ jack_create_120_null

PropertiesNext ==
    \/ jack_input_properties_enter
    \/ jack_input_properties_169
    \/ jack_input_properties_182
    \/ jack_input_properties_187
    \/ jack_input_properties_192
    \/ jack_input_properties_194
    \/ host_close_properties
    \/ jack_input_channel_count_changed

Next == SessionNext \/ PropertiesNext

Spec == Init /\ [][Next]_vars

(* ------------------------------------------------------------------ *)
(* Reading the record of a hook                                        *)
(* ------------------------------------------------------------------ *)

IsConnEvent(e) == e[1] \in {"deactivate_jack", "channels", "jack_init"}

\* the wrapper calls and channel-count stores of the running hook
ConnEvents == SelectSeq(ev, IsConnEvent)

Count(tag) == Cardinality({k \in DOMAIN ev : ev[k][1] = tag})

InitFailed == \E k \in DOMAIN ev : ev[k][1] = "jack_init" /\ ev[k][3] # 0

\* a jack_update on a session has run to its end
UpdateDone == pc = "update_ret" /\ vptr # "NULL"

\* the host's update of an existing session has returned
HostUpdateReturned == pc = "returned" /\ hook = "update" /\ vptr # "NULL"

StartDiffers == pre.start_jack_server # settings.startjack
ChannelsDiffer == pre.channels # settings.channels
DeviceDiffers == pre.device = NoDevice \/ pre.device # srcname

ValidChannels == 1 .. JACK_INPUT_MAX_PORTS

(* ------------------------------------------------------------------ *)
(* C1                                                                  *)
(* ------------------------------------------------------------------ *)

\* C1: when jack_create returns, it returns NULL if jack_init failed
\* during the create, and a session it returns (non-NULL) is live and has
\* a non-NULL client handle.
C1_CreateNullWithoutClient ==
    (pc = "returned" /\ hook = "create") =>
        /\ ret \in {"NULL", "data"}
        /\ InitFailed => ret = "NULL"
        /\ ret = "data" => data.alloc = "live" /\ data.jack_client # "NULL"

\* a create in which jack_init failed has returned
C1_Witness ==
    /\ pc = "returned" /\ hook = "create"
    /\ InitFailed
    /\ ret = "NULL"

(* ------------------------------------------------------------------ *)
(* C2                                                                  *)
(* ------------------------------------------------------------------ *)

\* C2: when an update whose reinitialization failed returns, the client
\* handle is NULL and the session is not activated; and between hooks (and
\* whenever a hook has returned) the client handle of the session is
\* non-NULL only if the last wrapper call on it was a jack_init that
\* succeeded, and then the session is activated, not partially connected.
C2_FailedReinitDeactivates ==
    /\ (HostUpdateReturned /\ InitFailed) =>
           data.jack_client = "NULL" /\ ~data.activated
    /\ (pc \in {"idle", "returned"} /\ data.jack_client # "NULL") =>
           conn = "jack_init_ok" /\ data.activated

\* an update has returned whose jack_init failed with the client opened
C2_Witness ==
    /\ HostUpdateReturned
    /\ \E k \in DOMAIN ev :
          ev[k][1] = "jack_init" /\ ev[k][3] # 0 /\ ev[k][4] = "open"
    /\ data.jack_client = "NULL"

(* ------------------------------------------------------------------ *)
(* C3                                                                  *)
(* ------------------------------------------------------------------ *)

\* C3: in a jack_update where the start flag, the channel count or the
\* device name differs from the session's, the first wrapper call is
\* deactivate_jack, made while the session still has the old channel
\* count; the new count is stored next; jack_init follows and sees the
\* new count.
C3_DeactivateStoreInit ==
    (UpdateDone /\ (StartDiffers \/ ChannelsDiffer \/ DeviceDiffers)) =>
        /\ Len(ConnEvents) >= 3
        /\ ConnEvents[1] = <<"deactivate_jack", pre.channels>>
        /\ ConnEvents[2] = <<"channels", settings.channels>>
        /\ ConnEvents[3][1] = "jack_init"
        /\ ConnEvents[3][2] = settings.channels

\* an update of an existing session in which only the channel count
\* differs has run
C3_Witness ==
    /\ UpdateDone /\ hook = "update"
    /\ ChannelsDiffer /\ ~StartDiffers /\ ~DeviceDiffers
    /\ Len(ConnEvents) >= 3

(* ------------------------------------------------------------------ *)
(* C4                                                                  *)
(* ------------------------------------------------------------------ *)

OnlyStartDiffers == StartDiffers /\ ~ChannelsDiffer /\ ~DeviceDiffers

\* C4 as stated: an update in which only the startjack flag differs calls
\* deactivate_jack exactly once and jack_init exactly once, whether or
\* not jack_init succeeds.
C4_ExactlyOneOfEach ==
    (HostUpdateReturned /\ OnlyStartDiffers) =>
        Count("deactivate_jack") = 1 /\ Count("jack_init") = 1

\* C4 as amended: an update in which only the startjack flag differs calls
\* deactivate_jack once, then jack_init exactly once, and deactivate_jack
\* once more exactly when that jack_init failed.
C4_OneCycle ==
    (HostUpdateReturned /\ OnlyStartDiffers) =>
        /\ Count("jack_init") = 1
        /\ ConnEvents[1][1] = "deactivate_jack"
        /\ ConnEvents[3][1] = "jack_init"
        /\ IF InitFailed
           THEN /\ Count("deactivate_jack") = 2
                /\ Len(ConnEvents) = 4
                /\ ConnEvents[4][1] = "deactivate_jack"
           ELSE /\ Count("deactivate_jack") = 1
                /\ Len(ConnEvents) = 3

\* such an update has returned after its jack_init failed
C4_Witness ==
    /\ HostUpdateReturned /\ OnlyStartDiffers
    /\ InitFailed
    /\ Count("deactivate_jack") = 2

(* ------------------------------------------------------------------ *)
(* C5                                                                  *)
(* ------------------------------------------------------------------ *)

\* C5 as stated: once jack_create has initialised the fields of a session,
\* its channel count is in 1..8 in every state, inside the hooks as well
\* as between them.
C5_ChannelsInRange ==
    (data.alloc = "live" /\ data.source) => data.channels \in ValidChannels

(* ------------------------------------------------------------------ *)
(* C6                                                                  *)
(* ------------------------------------------------------------------ *)

\* C6: an update in which the start flag, the channel count and the device
\* name all equal the session's calls no wrapper function, frees and
\* copies no string, and leaves the session as it was; so a session whose
\* client handle is NULL keeps it NULL over such an update.
C6_NoChangeNoReinit ==
    (HostUpdateReturned /\ ~StartDiffers /\ ~ChannelsDiffer /\ ~DeviceDiffers)
        => ev = <<>> /\ data = pre

\* such an update has returned on a session that a failed reinit left
\* deactivated
C6_Witness ==
    /\ HostUpdateReturned
    /\ ~StartDiffers /\ ~ChannelsDiffer /\ ~DeviceDiffers
    /\ data.jack_client = "NULL"
    /\ ev = <<>>

(* ------------------------------------------------------------------ *)
(* C7                                                                  *)
(* ------------------------------------------------------------------ *)

\* C7 as stated: every read and every write of data->channels that a hook
\* makes is made while jack_mutex is held.
C7_ChannelsUnderMutex == \A a \in acc : a.held

(* ------------------------------------------------------------------ *)
(* C8                                                                  *)
(* ------------------------------------------------------------------ *)

\* C8 as stated: the descriptor get_properties returns for a session with
\* channel count c in 1..8 has the port lists of index < c visible and
\* those of index >= c hidden.
C8_ReturnedVisibility ==
    (pc = "returned" /\ hook = "get_properties"
        /\ data.channels \in ValidChannels) =>
        \A i \in channel_ports_property_names :
            props.visible[i] <=> i < data.channels

(* ------------------------------------------------------------------ *)
(* C9                                                                  *)
(* ------------------------------------------------------------------ *)

Sets(i) == {k \in DOMAIN cb.log : cb.log[k][1] = "set_visible" /\ cb.log[k][2] = i}
Refreshes(i) == {k \in DOMAIN cb.log : cb.log[k][1] = "modified" /\ cb.log[k][2] = i}

VisibleSet == {i \in channel_ports_property_names : props.visible[i]}

\* C10: once the callback has run on a descriptor, the set of visible port
\* lists is decided by the last channel count alone, if that is in 1..8:
\* it is the set of indices below it, the same as one run of the callback
\* with that count makes of a new descriptor; after the counts 2, 5, 2 it
\* is {0, 1}.
C10_LastCountDecides ==
    (pc \in {"idle", "returned"} /\ props.applied) =>
        /\ settings.channels \in ValidChannels =>
               /\ VisibleSet = 0 .. (settings.channels - 1)
               /\ \A v \in BOOLEAN :
                      props.visible =
                          channel_count_changed(
                              [i \in channel_ports_property_names |-> v],
                              settings.channels).visible
        /\ hist = Pattern => VisibleSet = {0, 1}

\* the callback has run with the counts 2, 5 and 2 in a row
C10_Witness ==
    /\ pc = "idle"
    /\ props.applied
    /\ hist = Pattern
    /\ VisibleSet = {0, 1}

(* ------------------------------------------------------------------ *)
(* C11                                                                 *)
(* ------------------------------------------------------------------ *)

\* C11: a jack_destroy called with a NULL handle calls nothing, releases
\* nothing and changes nothing.
C11_DestroyNullNoOp ==
    (pc = "returned" /\ hook = "destroy" /\ vptr = "NULL") =>
        ev = <<>> /\ data = pre

\* the host has destroyed the NULL that a failed create returned
C11_Witness ==
    /\ pc = "returned" /\ hook = "destroy" /\ vptr = "NULL"
    /\ ret = "NULL"
    /\ ev = <<>>

(* ------------------------------------------------------------------ *)
(* C12                                                                 *)
(* ------------------------------------------------------------------ *)

Releases == {"bfree_device", "pthread_mutex_destroy", "bfree_data"}

\* C12: a jack_destroy of a session ends with deactivate_jack, the release
\* of the device string, the destruction of the mutex and the release of
\* the session, in this order; the hook makes each of the three releases
\* once, and the session is gone.
C12_DestroyOrder ==
    (pc = "destroy_ret" /\ vptr # "NULL") =>
        LET n == Len(ev) IN
        /\ n >= 4
        /\ ev[n - 3][1] = "deactivate_jack"
        /\ ev[n - 2][1] = "bfree_device"
        /\ ev[n - 1][1] = "pthread_mutex_destroy"
        /\ ev[n][1] = "bfree_data"
        /\ \A t \in Releases : Count(t) = 1
        /\ hook = "destroy" =>
               /\ n = 4
               /\ ev[1][2] = pre.channels
               /\ ev[2][2] = pre.device
        /\ data.alloc = "freed"

\* the host has destroyed a session that a failed update left deactivated
C12_Witness ==
    /\ pc = "destroy_ret" /\ vptr # "NULL" /\ hook = "destroy"
    /\ pre.alloc = "live" /\ pre.jack_client = "NULL"
    /\ Len(ev) = 4

(* ------------------------------------------------------------------ *)
(* C13                                                                 *)
(* ------------------------------------------------------------------ *)

AllocFailed == hook = "create" /\ ev # <<>> /\ ev[1][1] = "bzalloc_failed"

\* C13 as stated: when the allocation of the session fails, jack_create
\* initialises no mutex, stores no field and calls no jack_update with
\* the null pointer, and returns NULL.
C13_AllocFailureReturnsNull ==
    AllocFailed =>
        /\ Len(ev) = 1
        /\ pc # "crashed"
        /\ pc = "returned" => ret = "NULL"

(* ------------------------------------------------------------------ *)
(* C14                                                                 *)
(* ------------------------------------------------------------------ *)

\* C14: no hook returns with jack_mutex locked, and a get_properties that
\* has returned has locked it once and then unlocked it once.
C14_MutexReleased ==
    /\ pc \in {"idle", "returned"} => data.jack_mutex # "locked"
    /\ (pc = "returned" /\ hook = "get_properties") =>
           ev = << <<"pthread_mutex_lock">>, <<"pthread_mutex_unlock">> >>

\* a get_properties has returned
C14_Witness ==
    /\ pc = "returned" /\ hook = "get_properties"
    /\ Count("pthread_mutex_lock") = 1
    /\ data.jack_mutex = "unlocked"

(* ------------------------------------------------------------------ *)
(* C15                                                                 *)
(* ------------------------------------------------------------------ *)

\* C15: when the jack_update inside jack_create returns for an allocated
\* session, it has noted a change and called jack_init exactly once, and
\* that call saw the channel count of the settings, whatever the settings.
C15_CreateInitsOnce ==
    (pc = "create_120" /\ data.alloc = "live") =>
        /\ loc.settings_changed
        /\ Count("jack_init") = 1
        /\ \A k \in DOMAIN ev :
              ev[k][1] = "jack_init" => ev[k][2] = settings.channels
        /\ data.channels = settings.channels

\* a create with channels -1 and startjack false has called jack_init
C15_Witness ==
    /\ pc = "create_120" /\ data.alloc = "live"
    /\ settings.channels = InitialChannels /\ ~settings.startjack
    /\ Count("jack_init") = 1

(* ------------------------------------------------------------------ *)
(* C16                                                                 *)
(* ------------------------------------------------------------------ *)

\* C16: when jack_init is about to be called the client handle is NULL and
\* the last wrapper call on the session was deactivate_jack; in the record
\* of a hook each jack_init comes right after a deactivate_jack and the
\* store of the channel count.
C16_InitOnlyWhenDeactivated ==
    /\ pc = "update_101" =>
           data.jack_client = "NULL" /\ conn = "deactivate_jack"
    /\ \A k \in DOMAIN ConnEvents :
           ConnEvents[k][1] = "jack_init" =>
               /\ k >= 3
               /\ ConnEvents[k - 2][1] = "deactivate_jack"
               /\ ConnEvents[k - 1][1] = "channels"

\* an update of a session with a live client is about to call jack_init
C16_Witness ==
    /\ pc = "update_101"
    /\ pre.jack_client = "open"
    /\ data.jack_client = "NULL"

(* ------------------------------------------------------------------ *)
(* C17                                                                 *)
(* ------------------------------------------------------------------ *)

\* C17: when jack_create returns after its jack_init failed, it returns
\* NULL and the session is gone: the device string was copied once and
\* released once, the mutex initialised once and destroyed once, the
\* session freed once, and deactivate_jack ran three times (lines 97, 102
\* and 54).
C17_FailedCreateTornDown ==
    (pc = "returned" /\ hook = "create" /\ InitFailed) =>
        /\ ret = "NULL"
        /\ data.alloc = "freed"
        /\ Count("bstrdup") = 1
        /\ Count("pthread_mutex_init") = 1
        /\ \A t \in Releases : Count(t) = 1
        /\ \A j, k \in DOMAIN ev :
              (ev[j][1] = "bstrdup" /\ ev[k][1] = "bfree_device") =>
                  j < k /\ ev[j][2] = ev[k][2]
        /\ Count("deactivate_jack") = 3

\* a create whose jack_init failed has returned after three deactivations
C17_Witness ==
    /\ pc = "returned" /\ hook = "create" /\ InitFailed
    /\ Count("deactivate_jack") = 3
    /\ Count("bfree_data") = 1

(* ------------------------------------------------------------------ *)
(* C18                                                                 *)
(* ------------------------------------------------------------------ *)

\* C18 as stated: whatever the value of the channels setting, a run of the
\* modified callback uses only indices 0..7 of the table of names, each of
\* them exactly once.
C18_IndicesInTable ==
    (hook = "modified" /\ cb.ran) =>
        /\ OutOfTable(cb.log) = {}
        /\ \A i \in channel_ports_property_names : Cardinality(Sets(i)) = 1

====
